---- MODULE Spec2Model ----
(***************************************************************************)
(* Model of the lender service (src/server.py): the three gRPC handlers    *)
(* DbToHdfs, BlockLocations and CalcAvgLoan of LenderServicer, running on  *)
(* the workers of the server's thread pool against one HDFS store and one  *)
(* MySQL source, and of the client of src/performance_analyzer.py.         *)
(*                                                                         *)
(* A handler is a sequence of blocking I/O calls; one action models one    *)
(* such call together with the local code up to the next one, and the      *)
(* try/except structure decides where an exception raised by it lands.     *)
(***************************************************************************)
EXTENDS Integers, Sequences, FiniteSets, TLC

(* ---------------------------- bounds ---------------------------------- *)
NumWorkers == 2
NumKeys == 2
NumLoans == 5
MaxBlocks == 2
NumHosts == 2

(* ------------------------ program constants --------------------------- *)
max_retries == 5
BACKOFF == 10
MIN_AMOUNT == 30000
MAX_AMOUNT == 800000
MAIN_REPLICATION == 2
PART_REPLICATION == 1
COUNTY_CODES == <<55001, 55003, 55027, 55059, 55133>>
main_file_path == <<"/hdma-wi-2021.parquet">>

Workers == 1..NumWorkers
Keys == {COUNTY_CODES[i] : i \in 1..NumKeys}
Hosts == 1..NumHosts

RECURSIVE SeqsUpTo(_, _)
SeqsUpTo(S, n) ==
    IF n = 0 THEN {<<>>}
    ELSE LET shorter == SeqsUpTo(S, n - 1)
         IN shorter \cup {Append(s, x) : s \in {t \in shorter : Len(t) = n - 1}, x \in S}

\* the loans the relational source can hold, in the order it returns them:
\* two counties with eligible loans (one with an odd sum of amounts), and a
\* loan at each bound of the query's WHERE clause, which excludes both
Loan(c, a) == [county_code |-> c, loan_amount |-> a]
SampleLoans ==
    << Loan(COUNTY_CODES[1], MIN_AMOUNT + 1),
       Loan(COUNTY_CODES[1], 2 * MIN_AMOUNT + 2),
       Loan(COUNTY_CODES[2], MIN_AMOUNT + 1),
       Loan(COUNTY_CODES[1], MIN_AMOUNT),
       Loan(COUNTY_CODES[2], MAX_AMOUNT),
       Loan(COUNTY_CODES[2], 2 * MIN_AMOUNT + 2),
       Loan(COUNTY_CODES[1], MAX_AMOUNT - 1),
       Loan(COUNTY_CODES[2], MAX_AMOUNT - 1) >>

RECURSIVE Pick(_, _)
Pick(S, n) ==
    IF n = 0 THEN <<>>
    ELSE IF n \in S THEN Append(Pick(S, n - 1), SampleLoans[n]) ELSE Pick(S, n - 1)

\* the contents the joined loans table can have when it is queried: any
\* subset of the first NumLoans sample loans
DbTables == {Pick(S, NumLoans) : S \in SUBSET (1..NumLoans)}

(* ----------------------------- the store ------------------------------ *)
\* a file of the store: absent, partial (created or truncated by
\* open_output_stream and not completely written), ok (a complete parquet
\* file), garbage (bytes that are no parquet file), unavailable (the blocks
\* cannot be read from any DataNode)
AbsentFile == [st |-> "absent", rows |-> <<>>, repl |-> 0]
PartialFile(r) == [st |-> "partial", rows |-> <<>>, repl |-> r]
OkFile(rows, r) == [st |-> "ok", rows |-> rows, repl |-> r]

VARIABLES
    main,      \* the file /hdma-wi-2021.parquet
    part,      \* part[k]: the file /partitions/{k}.parquet
    wk,        \* wk[w]: the handler a worker runs, its position and locals
    cache,     \* history: the answer of the call that wrote part[k], while
               \* part[k] is as that call wrote it
    faithful   \* history: part[k] was written from a complete main file

vars == <<main, part, wk, cache, faithful>>

partition_path(k) == <<"/partitions/", k, ".parquet">>

(* --------------------------- exceptions ------------------------------- *)
\* an exception is its class and its message; IsA is Python's isinstance
Exc(cls, msg) == [cls |-> cls, msg |-> msg]

IsA(e, cls) ==
    CASE cls = "Exception" -> TRUE
      [] cls = "OSError" -> e.cls \in {"OSError", "FileNotFoundError", "HTTPError", "ConnectionError"}
      [] cls = "FileNotFoundError" -> e.cls = "FileNotFoundError"
      [] OTHER -> e.cls = cls

\* str(e)
Str(e) == e.msg

HdfsConnectError == Exc("OSError", "HDFS connection failed")
HdfsIOError == Exc("OSError", "HDFS I/O failed")
DbError == Exc("OperationalError", "Can't connect to MySQL server")
HttpError == Exc("HTTPError", "404 Client Error: Not Found")
HttpConnectionError == Exc("ConnectionError", "Connection refused")
NanError == Exc("ValueError", "cannot convert float NaN to integer")

(* ------------------------- pure computations -------------------------- *)
\* the WHERE clause of the query of DbToHdfs
Eligible(r) == r.loan_amount > MIN_AMOUNT /\ r.loan_amount < MAX_AMOUNT
Query(tbl) == SelectSeq(tbl, Eligible)

\* the filter with the comparison "!=" in place of "="
FilterRows_NotEqual(rows, k) ==
    LET Match(r) == r.county_code # k
    IN SelectSeq(rows, Match)

\* pq.read_table(f, filters=[("county_code", "=", county_code)])
FilterRows(rows, k) ==
    LET Match(r) == r.county_code = k
    IN SelectSeq(rows, Match)

RECURSIVE SumAmounts(_)
SumAmounts(rows) ==
    IF rows = <<>> THEN 0 ELSE Head(rows).loan_amount + SumAmounts(Tail(rows))

\* the mean of no rows taken to be 0
Mean_ZeroOnEmpty(rows) ==
    IF Len(rows) = 0
    THEN [exc |-> Exc("", ""), val |-> 0]
    ELSE [exc |-> Exc("", ""), val |-> SumAmounts(rows) \div Len(rows)]

\* the mean rounded to the nearest integer instead of truncated
Mean_Rounded(rows) ==
    IF Len(rows) = 0
    THEN [exc |-> NanError, val |-> 0]
    ELSE [exc |-> Exc("", ""), val |-> (2 * SumAmounts(rows) + Len(rows)) \div (2 * Len(rows))]

\* int(table.column("loan_amount").to_numpy().mean()): the mean of no rows
\* is NaN, and int(NaN) raises ValueError
Mean(rows) ==
    IF Len(rows) = 0
    THEN [exc |-> NanError, val |-> 0]
    ELSE [exc |-> Exc("", ""), val |-> SumAmounts(rows) \div Len(rows)]

\* hdfs.open_input_file(path) and pq.read_table(f) on a file of the store
ReadParquet(f) ==
    CASE f.st = "absent" ->
            [exc |-> Exc("FileNotFoundError", "No such file or directory"), rows |-> <<>>]
      [] f.st = "unavailable" ->
            [exc |-> Exc("OSError", "Could not obtain block"), rows |-> <<>>]
      [] f.st \in {"partial", "garbage"} ->
            [exc |-> Exc("ArrowInvalid", "Parquet magic bytes not found in footer"), rows |-> <<>>]
      [] OTHER -> [exc |-> Exc("", ""), rows |-> f.rows]

Raised(r) == r.exc.cls # ""

\* blocks[host] = 1: the counter is set, not incremented
DictIncr_Overwrite(d, h) ==
    [x \in DOMAIN d \cup {h} |-> IF x = h THEN 1 ELSE d[x]]

\* blocks[host] = blocks.get(host, 0) + 1
DictIncr(d, h) ==
    IF h \in DOMAIN d
    THEN [d EXCEPT ![h] = @ + 1]
    ELSE [x \in DOMAIN d \cup {h} |-> IF x = h THEN 1 ELSE d[x]]

EmptyDict == [x \in {} |-> 0]

RECURSIVE CountHosts(_, _)
CountHosts(d, hosts) ==
    IF hosts = <<>> THEN d ELSE CountHosts(DictIncr(d, Head(hosts)), Tail(hosts))

\* the two loops of BlockLocations over the block descriptors and their hosts
RECURSIVE CountBlocks(_, _)
CountBlocks(d, block_locations) ==
    IF block_locations = <<>> THEN d
    ELSE CountBlocks(CountHosts(d, Head(block_locations).hosts), Tail(block_locations))

(* the rows of a table whose county_code is k, in the table's order *)
RECURSIVE RowsWithKey(_, _)
RowsWithKey(rows, k) ==
    IF Len(rows) = 0 THEN <<>>
    ELSE LET init == RowsWithKey(SubSeq(rows, 1, Len(rows) - 1), k)
             last == rows[Len(rows)]
         IN IF last.county_code = k THEN Append(init, last) ELSE init

(* ------------------------------ workers ------------------------------- *)
NoResp == [status |-> <<>>, block_entries |-> EmptyDict, avg_loan |-> 0,
           source |-> "", error |-> ""]

\* the locals of the handlers, and as history of a CalcAvgLoan call: seen, the
\* state in which it found the partition file; scans, the number of times it
\* has opened the main file for reading; written, the paths it has opened for
\* output; and of any call: conn, the database connection of the current
\* attempt (none, open or closed); streams, the files of the store it has open
IdleWorker ==
    [op |-> "idle", pc |-> "idle", attempt |-> 0, slept |-> 0, timer |-> 0,
     df |-> <<>>, county_code |-> 0, source |-> "", table |-> <<>>,
     avg_loan |-> 0, seen |-> "", fromMain |-> FALSE, exc |-> Exc("", ""), path |-> <<>>, result |-> <<>>,
     scans |-> 0, written |-> <<>>, conn |-> "none", streams |-> 0,
     resp |-> NoResp]

NoCache == [by |-> "none", avg |-> 0, returned |-> FALSE]

Init ==
    /\ main = AbsentFile
    /\ part = [k \in Keys |-> AbsentFile]
    /\ wk = [w \in Workers |-> IdleWorker]
    /\ cache = [k \in Keys |-> NoCache]
    /\ faithful = [k \in Keys |-> FALSE]

\* lender_pb2.StatusString(status=...)
StatusString(text, n, tail) == [NoResp EXCEPT !.status = <<text, n, tail>>]
\* lender_pb2.BlockLocationsResp(block_entries=..., error=...)
BlockLocationsResp(entries, err) == [NoResp EXCEPT !.block_entries = entries, !.error = err]
\* lender_pb2.CalcAvgLoanResp(avg_loan=..., source=..., error=...)
CalcAvgLoanResp(avg, src, err) == [NoResp EXCEPT !.avg_loan = avg, !.source = src, !.error = err]

\* the handler returns resp: the worker keeps it until the call is completed
Done(v, resp) == [v EXCEPT !.pc = "done", !.resp = resp]
\* an exception no handler of the operation catches reaches the transport
Propagate(v, e) == [v EXCEPT !.pc = "raised", !.exc = e]
\* the operation ends in its handler of exception e, which returns resp
Caught(v, e, resp) == Done([v EXCEPT !.exc = e], resp)

(* ------------------------------ DbToHdfs ------------------------------ *)
\* the handler with the test "attempt < max_retries": it sleeps after the
\* last attempt too
DbExcept_SleepsAlways(v, e) ==
    IF IsA(e, "Exception")
    THEN IF v.attempt < max_retries
         THEN [v EXCEPT !.pc = "db_sleep", !.timer = BACKOFF, !.slept = @ + 1, !.df = <<>>]
         ELSE Caught([v EXCEPT !.df = <<>>], e,
                     StatusString("ERROR: Could not complete operation after", max_retries, Str(e)))
    ELSE Propagate(v, e)

\* except Exception as e: sleep when attempts remain, else return the error
DbExcept(v, e) ==
    IF IsA(e, "Exception")
    THEN IF v.attempt < max_retries - 1
         THEN [v EXCEPT !.pc = "db_sleep", !.timer = BACKOFF, !.slept = @ + 1, !.df = <<>>]
         ELSE Caught([v EXCEPT !.df = <<>>], e,
                     StatusString("ERROR: Could not complete operation after", max_retries, Str(e)))
    ELSE Propagate(v, e)

CallDbToHdfs(w) ==
    /\ wk[w].pc = "idle"
    /\ wk' = [wk EXCEPT ![w] = [IdleWorker EXCEPT !.op = "DbToHdfs", !.pc = "db_connect"]]
    /\ UNCHANGED <<main, part, cache, faithful>>

\* create_engine(...); engine.connect()
DbConnect(w) ==
    /\ wk[w].pc = "db_connect"
    /\ \E ok \in BOOLEAN :
         wk' = [wk EXCEPT ![w] = IF ok THEN [@ EXCEPT !.pc = "db_query", !.conn = "open"]
                                  ELSE DbExcept(@, DbError)]
    /\ UNCHANGED <<main, part, cache, faithful>>

\* df = pd.read_sql(query, conn); conn.close(): when read_sql raises, the
\* close is skipped
DbQuery(w) ==
    /\ wk[w].pc = "db_query"
    /\ \/ \E tbl \in DbTables :
            wk' = [wk EXCEPT ![w] = [@ EXCEPT !.pc = "db_open", !.df = Query(tbl),
                                              !.conn = "closed"]]
       \/ wk' = [wk EXCEPT ![w] = DbExcept(@, DbError)]
    /\ UNCHANGED <<main, part, cache, faithful>>

\* pa.Table.from_pandas(df); pa.fs.HadoopFileSystem(..., replication=2);
\* hdfs.open_output_stream("/hdma-wi-2021.parquet") creates or truncates
DbOpen(w) ==
    /\ wk[w].pc = "db_open"
    /\ \/ /\ wk' = [wk EXCEPT ![w] = [@ EXCEPT !.pc = "db_write", !.streams = @ + 1]]
          /\ main' = PartialFile(MAIN_REPLICATION)
       \/ /\ wk' = [wk EXCEPT ![w] = DbExcept(@, HdfsConnectError)]
          /\ UNCHANGED main
    /\ UNCHANGED <<part, cache, faithful>>

\* a materialization that invalidates the cache: the partitions are deleted
\* when the main file has been replaced
DbWrite_Invalidates(w) ==
    /\ wk[w].pc = "db_write"
    /\ \/ /\ main' = OkFile(wk[w].df, MAIN_REPLICATION)
          /\ wk' = [wk EXCEPT ![w] =
                      Done([@ EXCEPT !.streams = @ - 1],
                           StatusString("DbToHdfs: Successfully wrote", Len(@.df), "rows"))]
          /\ part' = [k \in Keys |-> AbsentFile]
          /\ cache' = [k \in Keys |-> NoCache]
          /\ faithful' = [k \in Keys |-> FALSE]
       \/ /\ wk' = [wk EXCEPT ![w] = DbExcept([@ EXCEPT !.streams = @ - 1], HdfsIOError)]
          /\ UNCHANGED <<main, part, cache, faithful>>

\* the status reports the rows of the table returned by the database before
\* the count of the rows written: one more than len(df)
DbWrite_WrongCount(w) ==
    /\ wk[w].pc = "db_write"
    /\ \/ /\ main' = OkFile(wk[w].df, MAIN_REPLICATION)
          /\ wk' = [wk EXCEPT ![w] =
                      Done([@ EXCEPT !.streams = @ - 1],
                           StatusString("DbToHdfs: Successfully wrote", Len(@.df) + 1, "rows"))]
       \/ /\ wk' = [wk EXCEPT ![w] = DbExcept([@ EXCEPT !.streams = @ - 1], HdfsIOError)]
          /\ UNCHANGED main
    /\ UNCHANGED <<part, cache, faithful>>

\* pq.write_table(table, f), the stream closed by the with statement;
\* return StatusString(f"DbToHdfs: Successfully wrote {len(df)} rows")
DbWrite(w) ==
    /\ wk[w].pc = "db_write"
    /\ \/ /\ main' = OkFile(wk[w].df, MAIN_REPLICATION)
          /\ wk' = [wk EXCEPT ![w] =
                      Done([@ EXCEPT !.streams = @ - 1],
                           StatusString("DbToHdfs: Successfully wrote", Len(@.df), "rows"))]
       \/ /\ wk' = [wk EXCEPT ![w] = DbExcept([@ EXCEPT !.streams = @ - 1], HdfsIOError)]
          /\ UNCHANGED main
    /\ UNCHANGED <<part, cache, faithful>>

\* time.sleep(10) returns and the loop for attempt in range(max_retries)
\* takes the next attempt, which has no connection yet; when the range is exhausted the function ends
\* without a return statement, and None is no StatusString
DbWake(w) ==
    /\ wk[w].pc = "db_sleep"
    /\ wk' = [wk EXCEPT ![w] =
                IF @.attempt + 1 < max_retries
                THEN [@ EXCEPT !.pc = "db_connect", !.timer = 0, !.attempt = @ + 1,
                               !.conn = "none"]
                ELSE Propagate([@ EXCEPT !.timer = 0],
                               Exc("TypeError", "handler returned None"))]
    /\ UNCHANGED <<main, part, cache, faithful>>

(* --------------------------- BlockLocations --------------------------- *)
missing_path == <<"/no-such-file">>
Paths == {main_file_path, missing_path} \cup {partition_path(k) : k \in Keys}

\* the file of the store a path names
FileAt(p) ==
    IF p = main_file_path THEN main
    ELSE IF \E k \in Keys : p = partition_path(k)
         THEN part[CHOOSE k \in Keys : p = partition_path(k)]
         ELSE AbsentFile

\* the replica-host lists a block can report: distinct hosts, at most as many
\* as the replication factor of the file (fewer when DataNodes are down)
RECURSIVE HostLists(_)
HostLists(n) ==
    IF n = 0 THEN {<<>>}
    ELSE LET shorter == HostLists(n - 1)
         IN shorter \cup {Append(s, h) : s \in {t \in shorter : Len(t) = n - 1},
                                           h \in Hosts}

Distinct(s) == \A i, j \in 1..Len(s) : i # j => s[i] # s[j]

\* the answers the GETFILEBLOCKLOCATIONS query can give for a file
BlockLists(f) ==
    LET n == IF f.repl < NumHosts THEN f.repl ELSE NumHosts
        blocks == {[hosts |-> hs] : hs \in {s \in HostLists(n) : Distinct(s)}}
    IN SeqsUpTo(blocks, MaxBlocks)

CallBlockLocations(w) ==
    /\ wk[w].pc = "idle"
    /\ \E p \in Paths :
         wk' = [wk EXCEPT ![w] =
                  [IdleWorker EXCEPT !.op = "BlockLocations", !.pc = "bl_get", !.path = p]]
    /\ UNCHANGED <<main, part, cache, faithful>>

\* except Exception as e: return BlockLocationsResp(block_entries={}, error=str(e))
BlExcept(v, e) ==
    IF IsA(e, "Exception")
    THEN Caught(v, e, BlockLocationsResp(EmptyDict, Str(e)))
    ELSE Propagate(v, e)

\* requests.get(webhdfs_url); raise_for_status(); json(); the counting loops
BlGet(w) ==
    /\ wk[w].pc = "bl_get"
    /\ \/ /\ FileAt(wk[w].path).st = "absent"
          /\ wk' = [wk EXCEPT ![w] = BlExcept(@, HttpError)]
       \/ /\ FileAt(wk[w].path).st # "absent"
          /\ \E bl \in BlockLists(FileAt(wk[w].path)) :
               wk' = [wk EXCEPT ![w] =
                        Done([@ EXCEPT !.result = bl],
                             BlockLocationsResp(CountBlocks(EmptyDict, bl), ""))]
       \/ wk' = [wk EXCEPT ![w] = BlExcept(@, HttpConnectionError)]
    /\ UNCHANGED <<main, part, cache, faithful>>

(* ----------------------------- CalcAvgLoan ---------------------------- *)
CallCalcAvgLoan(w) ==
    /\ wk[w].pc = "idle"
    /\ \E k \in Keys :
         wk' = [wk EXCEPT ![w] =
                  [IdleWorker EXCEPT !.op = "CalcAvgLoan", !.pc = "calc_connect",
                                     !.county_code = k]]
    /\ UNCHANGED <<main, part, cache, faithful>>

\* the outer handler catching storage errors only: except OSError as e:
CalcExcept_OnlyOSError(v, e) ==
    IF IsA(e, "OSError")
    THEN Caught(v, e, CalcAvgLoanResp(0, "", Str(e)))
    ELSE Propagate(v, e)

\* the outer handler returning the locals set so far instead of 0 and ""
CalcExcept_KeepsLocals(v, e) ==
    IF IsA(e, "Exception")
    THEN Caught(v, e, CalcAvgLoanResp(v.avg_loan, v.source, Str(e)))
    ELSE Propagate(v, e)

\* the outer handler: except Exception as e:
\*     return CalcAvgLoanResp(avg_loan=0, source="", error=str(e))
CalcExcept(v, e) ==
    IF IsA(e, "Exception")
    THEN Caught(v, e, CalcAvgLoanResp(0, "", Str(e)))
    ELSE Propagate(v, e)

\* the handlers of the inner try: except FileNotFoundError, except OSError;
\* any other exception goes on to the outer handler
CalcPartitionExcept(v, e) ==
    IF IsA(e, "FileNotFoundError")
    THEN [v EXCEPT !.pc = "calc_main", !.source = "create"]
    ELSE IF IsA(e, "OSError")
         THEN [v EXCEPT !.pc = "calc_main", !.source = "recreate"]
         ELSE CalcExcept(v, e)

\* hdfs = pa.fs.HadoopFileSystem(host="boss", user="root", port=9000)
CalcConnect(w) ==
    /\ wk[w].pc = "calc_connect"
    /\ \E ok \in BOOLEAN :
         wk' = [wk EXCEPT ![w] = IF ok THEN [@ EXCEPT !.pc = "calc_part"]
                                  ELSE CalcExcept(@, HdfsConnectError)]
    /\ UNCHANGED <<main, part, cache, faithful>>

\* the inner try: read the partition file, return its mean as "reuse"
CalcReadPartition(w) ==
    /\ wk[w].pc = "calc_part"
    /\ LET r == ReadParquet(part[wk[w].county_code])
           m == Mean(r.rows)
           v == [wk[w] EXCEPT !.seen = part[wk[w].county_code].st]
       IN wk' = [wk EXCEPT ![w] =
                   IF Raised(r) THEN CalcPartitionExcept(v, r.exc)
                   ELSE IF Raised(m) THEN CalcPartitionExcept(v, m.exc)
                   ELSE Done([v EXCEPT !.table = r.rows, !.avg_loan = m.val],
                             CalcAvgLoanResp(m.val, "reuse", ""))]
    /\ UNCHANGED <<main, part, cache, faithful>>

\* the main file read once for the table and once more for the mean
CalcReadMain_ReadsTwice(w) ==
    /\ wk[w].pc = "calc_main"
    /\ LET k == wk[w].county_code
           v == [wk[w] EXCEPT !.scans = @ + 2]
           r == ReadParquet(main)
           table == FilterRows(r.rows, k)
           m == Mean(table)
       IN \/ wk' = [wk EXCEPT ![w] =
                      IF Raised(r) THEN CalcExcept(v, r.exc)
                      ELSE IF Raised(m) THEN CalcExcept(v, m.exc)
                      ELSE [v EXCEPT !.pc = "calc_open", !.table = table,
                                     !.avg_loan = m.val,
                                     !.fromMain = /\ main.st = "ok"
                                                  /\ table = RowsWithKey(main.rows, k)]]
          \/ wk' = [wk EXCEPT ![w] = CalcExcept(v, HdfsIOError)]
    /\ UNCHANGED <<main, part, cache, faithful>>

\* with hdfs.open_input_file(main_file_path) as f:
\*     table = pq.read_table(f, filters=[("county_code", "=", county_code)])
\* avg_loan = int(table.column("loan_amount").to_numpy().mean())
CalcReadMain(w) ==
    /\ wk[w].pc = "calc_main"
    /\ LET k == wk[w].county_code
           v == [wk[w] EXCEPT !.scans = @ + 1]
           r == ReadParquet(main)
           table == FilterRows(r.rows, k)
           m == Mean(table)
       IN \/ wk' = [wk EXCEPT ![w] =
                      IF Raised(r) THEN CalcExcept(v, r.exc)
                      ELSE IF Raised(m) THEN CalcExcept(v, m.exc)
                      ELSE [v EXCEPT !.pc = "calc_open", !.table = table,
                                     !.avg_loan = m.val,
                                     !.fromMain = /\ main.st = "ok"
                                                  /\ table = RowsWithKey(main.rows, k)]]
          \/ wk' = [wk EXCEPT ![w] = CalcExcept(v, HdfsIOError)]
    /\ UNCHANGED <<main, part, cache, faithful>>

\* the partition written through a filesystem with the replication factor of
\* the main file
CalcOpen_MainReplication(w) ==
    /\ wk[w].pc = "calc_open"
    /\ LET k == wk[w].county_code
       IN \/ /\ wk' = [wk EXCEPT ![w] =
                         [@ EXCEPT !.pc = "calc_write", !.streams = @ + 1,
                                   !.written = Append(@, partition_path(k))]]
             /\ part' = [part EXCEPT ![k] = PartialFile(MAIN_REPLICATION)]
             /\ cache' = [cache EXCEPT ![k] = NoCache]
             /\ faithful' = [faithful EXCEPT ![k] = FALSE]
          \/ /\ wk' = [wk EXCEPT ![w] = CalcExcept(@, HdfsConnectError)]
             /\ UNCHANGED <<part, cache, faithful>>
    /\ UNCHANGED main

\* one partition path for all keys: the file of the first county code is
\* the one created or truncated
CalcOpen_SharedPath(w) ==
    /\ wk[w].pc = "calc_open"
    /\ LET k == COUNTY_CODES[1]
       IN \/ /\ wk' = [wk EXCEPT ![w] =
                         [@ EXCEPT !.pc = "calc_write", !.streams = @ + 1,
                                   !.written = Append(@, partition_path(k))]]
             /\ part' = [part EXCEPT ![k] = PartialFile(PART_REPLICATION)]
             /\ cache' = [cache EXCEPT ![k] = NoCache]
             /\ faithful' = [faithful EXCEPT ![k] = FALSE]
          \/ /\ wk' = [wk EXCEPT ![w] = CalcExcept(@, HdfsConnectError)]
             /\ UNCHANGED <<part, cache, faithful>>
    /\ UNCHANGED main

\* hdfs_write = pa.fs.HadoopFileSystem(..., replication=1);
\* hdfs_write.open_output_stream(partition_path) creates or truncates
CalcOpen(w) ==
    /\ wk[w].pc = "calc_open"
    /\ LET k == wk[w].county_code
       IN \/ /\ wk' = [wk EXCEPT ![w] =
                         [@ EXCEPT !.pc = "calc_write", !.streams = @ + 1,
                                   !.written = Append(@, partition_path(k))]]
             /\ part' = [part EXCEPT ![k] = PartialFile(PART_REPLICATION)]
             /\ cache' = [cache EXCEPT ![k] = NoCache]
             /\ faithful' = [faithful EXCEPT ![k] = FALSE]
          \/ /\ wk' = [wk EXCEPT ![w] = CalcExcept(@, HdfsConnectError)]
             /\ UNCHANGED <<part, cache, faithful>>
    /\ UNCHANGED main

\* the table appended to what the partition file holds instead of replacing it
CalcWrite_Appends(w) ==
    /\ wk[w].pc = "calc_write"
    /\ LET k == wk[w].county_code
       IN \/ /\ part' = [part EXCEPT ![k] = OkFile(@.rows \o wk[w].table, PART_REPLICATION)]
             /\ faithful' = [faithful EXCEPT ![k] = wk[w].fromMain]
             /\ cache' = [cache EXCEPT ![k] = [by |-> wk[w].source, avg |-> wk[w].avg_loan,
                                               returned |-> FALSE]]
             /\ wk' = [wk EXCEPT ![w] =
                         Done([@ EXCEPT !.streams = @ - 1],
                              CalcAvgLoanResp(@.avg_loan, @.source, ""))]
          \/ /\ wk' = [wk EXCEPT ![w] = CalcExcept([@ EXCEPT !.streams = @ - 1], HdfsIOError)]
             /\ UNCHANGED <<part, faithful, cache>>
    /\ UNCHANGED main

\* the whole main table written to the partition path instead of the filtered one
CalcWrite_Unfiltered(w) ==
    /\ wk[w].pc = "calc_write"
    /\ LET k == wk[w].county_code
       IN \/ /\ part' = [part EXCEPT ![k] = OkFile(main.rows, PART_REPLICATION)]
             /\ faithful' = [faithful EXCEPT ![k] = main.rows = RowsWithKey(main.rows, k)]
             /\ cache' = [cache EXCEPT ![k] = [by |-> wk[w].source, avg |-> wk[w].avg_loan,
                                               returned |-> FALSE]]
             /\ wk' = [wk EXCEPT ![w] =
                         Done([@ EXCEPT !.streams = @ - 1],
                              CalcAvgLoanResp(@.avg_loan, @.source, ""))]
          \/ /\ wk' = [wk EXCEPT ![w] = CalcExcept([@ EXCEPT !.streams = @ - 1], HdfsIOError)]
             /\ UNCHANGED <<part, faithful, cache>>
    /\ UNCHANGED main

\* pq.write_table(table, f), the stream closed by the with statement;
\* return CalcAvgLoanResp(avg_loan=avg_loan, source=source, error="")
CalcWrite(w) ==
    /\ wk[w].pc = "calc_write"
    /\ LET k == wk[w].county_code
       IN \/ /\ part' = [part EXCEPT ![k] = OkFile(wk[w].table, PART_REPLICATION)]
             /\ faithful' = [faithful EXCEPT ![k] = wk[w].fromMain]
             /\ cache' = [cache EXCEPT ![k] = [by |-> wk[w].source, avg |-> wk[w].avg_loan,
                                               returned |-> FALSE]]
             /\ wk' = [wk EXCEPT ![w] =
                         Done([@ EXCEPT !.streams = @ - 1],
                              CalcAvgLoanResp(@.avg_loan, @.source, ""))]
          \/ /\ wk' = [wk EXCEPT ![w] = CalcExcept([@ EXCEPT !.streams = @ - 1], HdfsIOError)]
             /\ UNCHANGED <<part, faithful, cache>>
    /\ UNCHANGED main

(* ------------------------- completion of a call ----------------------- *)
\* the response goes to the client and the worker is free again
Return(w) ==
    /\ wk[w].pc = "done"
    /\ wk' = [wk EXCEPT ![w] = IdleWorker]
    /\ cache' = IF /\ wk[w].op = "CalcAvgLoan"
                   /\ wk[w].resp.source \in {"create", "recreate"}
                   /\ cache[wk[w].county_code].by = wk[w].resp.source
                THEN [cache EXCEPT ![wk[w].county_code].returned = TRUE]
                ELSE cache
    /\ UNCHANGED <<main, part, faithful>>

(* ---------------------------- environment ----------------------------- *)
\* a response is delivered as soon as the handler returns: the environment
\* acts before the last step of a call or after its completion
Delivered == \A w \in Workers : wk[w].pc # "done"

\* hdfs dfs -rm -r /partitions
delete_partitions ==
    /\ Delivered
    /\ \E k \in Keys : part[k].st # "absent"
    /\ part' = [k \in Keys |-> AbsentFile]
    /\ cache' = [k \in Keys |-> NoCache]
    /\ faithful' = [k \in Keys |-> FALSE]
    /\ UNCHANGED <<main, wk>>

\* a partition file is replaced by bytes that are no parquet file
CorruptPartition(k) ==
    /\ Delivered
    /\ part[k].st = "ok"
    /\ part' = [part EXCEPT ![k] = [@ EXCEPT !.st = "garbage", !.rows = <<>>]]
    /\ cache' = [cache EXCEPT ![k] = NoCache]
    /\ faithful' = [faithful EXCEPT ![k] = FALSE]
    /\ UNCHANGED <<main, wk>>

\* the DataNode holding the only replica of a partition file goes down
DataNodeFailure(k) ==
    /\ Delivered
    /\ part[k].st = "ok"
    /\ part' = [part EXCEPT ![k] = [@ EXCEPT !.st = "unavailable", !.rows = <<>>]]
    /\ cache' = [cache EXCEPT ![k] = NoCache]
    /\ faithful' = [faithful EXCEPT ![k] = FALSE]
    /\ UNCHANGED <<main, wk>>

Env ==
    \/ delete_partitions
    \/ \E k \in Keys : CorruptPartition(k)
    \/ \E k \in Keys : DataNodeFailure(k)

(* --------------------------- specifications --------------------------- *)
\* the steps of the handler of DbToHdfs
DbRun(w) ==
    \/ DbConnect(w)
    \/ DbQuery(w)
    \/ DbOpen(w)
    \/ DbWrite(w)
    \/ DbWake(w)

\* the steps of the handler of CalcAvgLoan
CalcRun(w) ==
    \/ CalcConnect(w)
    \/ CalcReadPartition(w)
    \/ CalcReadMain(w)
    \/ CalcOpen(w)
    \/ CalcWrite(w)

\* the steps of the handler of BlockLocations
BlRun(w) == BlGet(w)

\* the calls of one client and their handlers
Step(w) ==
    \/ CallDbToHdfs(w)
    \/ DbRun(w)
    \/ CallBlockLocations(w)
    \/ BlRun(w)
    \/ CallCalcAvgLoan(w)
    \/ CalcRun(w)
    \/ Return(w)

\* one client that makes one call at a time, as performance_analyzer.py does
Next == Step(1) \/ Env

Spec == Init /\ [][Next]_vars

\* the workers of the thread pool serve calls concurrently: CalcAvgLoan calls
\* on every worker, next to the DbToHdfs calls of the first (BlockLocations
\* writes nothing and no other call reads what it computes)
Serve(w) ==
    \/ CallDbToHdfs(w)
    \/ DbRun(w)
    \/ CallCalcAvgLoan(w)
    \/ CalcRun(w)
    \/ Return(w)

CalcServe(w) ==
    \/ CallCalcAvgLoan(w)
    \/ CalcRun(w)
    \/ Return(w)

ConcNext ==
    \/ Serve(1)
    \/ \E w \in Workers \ {1} : CalcServe(w)
    \/ Env

ConcSpec == Init /\ [][ConcNext]_vars

\* a DbToHdfs call alone, which its worker runs to the end
DbNext == CallDbToHdfs(1) \/ DbRun(1) \/ Return(1)

DbSpec == Init /\ [][DbNext]_vars /\ WF_vars(DbRun(1))

\* the service while MainDataset stays as it is: a materialization runs only
\* when no partition exists and no other call is running, and no CalcAvgLoan
\* call starts during it; CalcAvgLoan calls run concurrently on all workers
Quiescent ==
    /\ \A k \in Keys : part[k].st = "absent"
    /\ \A w \in Workers : wk[w].pc = "idle"

RaceCallDbToHdfs(w) == Quiescent /\ CallDbToHdfs(w)

RaceCallCalcAvgLoan(w) ==
    /\ \A x \in Workers : wk[x].op # "DbToHdfs"
    /\ CallCalcAvgLoan(w)

RaceNext ==
    \/ RaceCallDbToHdfs(1)
    \/ DbRun(1)
    \/ \E w \in Workers : RaceCallCalcAvgLoan(w)
    \/ \E w \in Workers : CalcRun(w)
    \/ \E w \in Workers : Return(w)
    \/ Env

RaceSpec == Init /\ [][RaceNext]_vars

(* ------------------------------ claims -------------------------------- *)
\* m is the mean of loan_amount over rows, truncated to an integer
IsTruncMean(m, rows) ==
    /\ Len(rows) > 0
    /\ m * Len(rows) <= SumAmounts(rows)
    /\ SumAmounts(rows) < (m + 1) * Len(rows)

\* worker w holds the response of a completed CalcAvgLoan call
CalcDone(w) == wk[w].op = "CalcAvgLoan" /\ wk[w].pc = "done"

\* the store could not be reached or read during the call (a transient fault)
StoreFault(w) == wk[w].resp.error \in {Str(HdfsConnectError), Str(HdfsIOError)}

\* C1: when the last call that wrote the partition of a key returned
\* source "create" and the partition was not deleted, corrupted or written
\* since, a call for that key that reaches the store returns source "reuse",
\* no error and the average the creating call returned.
CreateThenReuse ==
    \A w \in Workers :
        (CalcDone(w) /\ ~StoreFault(w)) =>
            LET k == wk[w].county_code
            IN (cache[k].by = "create" /\ cache[k].returned) =>
                  /\ wk[w].resp.source = "reuse"
                  /\ wk[w].resp.error = ""
                  /\ wk[w].resp.avg_loan = cache[k].avg

CreateThenReuseWitness ==
    \E w \in Workers :
        /\ CalcDone(w)
        /\ cache[wk[w].county_code].by = "create"
        /\ cache[wk[w].county_code].returned
        /\ wk[w].resp.source = "reuse"
        /\ wk[w].resp.avg_loan = cache[wk[w].county_code].avg
        /\ wk[w].resp.avg_loan > 0

\* C2: a call that finds the partition file of its key present but corrupted
\* or unreadable returns source "recreate" with no error and the truncated
\* mean of the matching rows of MainDataset (MainDataset being readable and
\* holding such rows, and the store reachable during the call).
SelfHealing ==
    \A w \in Workers :
        (/\ CalcDone(w)
         /\ wk[w].seen \in {"garbage", "partial", "unavailable"}
         /\ ~StoreFault(w)
         /\ main.st = "ok"
         /\ RowsWithKey(main.rows, wk[w].county_code) # <<>>) =>
            /\ wk[w].resp.source = "recreate"
            /\ wk[w].resp.error = ""
            /\ IsTruncMean(wk[w].resp.avg_loan, RowsWithKey(main.rows, wk[w].county_code))

\* C3 as stated: every response without error carries the truncated mean of
\* the rows of the current MainDataset whose county_code is the key.
AverageOfCurrentMain ==
    \A w \in Workers :
        (CalcDone(w) /\ wk[w].resp.error = "") =>
            /\ main.st = "ok"
            /\ IsTruncMean(wk[w].resp.avg_loan, RowsWithKey(main.rows, wk[w].county_code))

\* C3 as amended: a response without error with source "create" or
\* "recreate" carries the truncated mean of the matching rows of the current
\* MainDataset; one with source "reuse" carries the average returned by the
\* call that created the partition, whatever MainDataset holds now.
AverageOfSource ==
    \A w \in Workers :
        (CalcDone(w) /\ wk[w].resp.error = "") =>
            LET k == wk[w].county_code
            IN /\ wk[w].resp.source \in {"create", "recreate", "reuse"}
               /\ wk[w].resp.source \in {"create", "recreate"} =>
                     /\ main.st = "ok"
                     /\ IsTruncMean(wk[w].resp.avg_loan, RowsWithKey(main.rows, k))
               /\ wk[w].resp.source = "reuse" =>
                     /\ cache[k].by \in {"create", "recreate"}
                     /\ wk[w].resp.avg_loan = cache[k].avg
                     /\ IsTruncMean(wk[w].resp.avg_loan, part[k].rows)

\* a reuse answer that differs from the mean of the current MainDataset, and
\* a created one whose mean was truncated
AverageOfSourceWitness ==
    \E w \in Workers :
        /\ CalcDone(w)
        /\ wk[w].resp.source = "reuse"
        /\ main.st = "ok"
        /\ ~IsTruncMean(wk[w].resp.avg_loan, RowsWithKey(main.rows, wk[w].county_code))
        /\ wk[w].resp.avg_loan * Len(part[wk[w].county_code].rows)
             < SumAmounts(part[wk[w].county_code].rows)

\* worker w holds the response of a completed DbToHdfs call
DbDone(w) == wk[w].op = "DbToHdfs" /\ wk[w].pc = "done"
DbOk(w) == DbDone(w) /\ wk[w].resp.status[1] = "DbToHdfs: Successfully wrote"
DbFailed(w) == DbDone(w) /\ wk[w].resp.status[1] = "ERROR: Could not complete operation after"

\* the retry loop of a DbToHdfs call: attempt is the index of the current
\* attempt, slept the number of sleeps so far
RetryInv(w) ==
    wk[w].op = "DbToHdfs" =>
        /\ wk[w].pc # "raised"
        /\ wk[w].attempt \in 0..(max_retries - 1)
        /\ wk[w].slept <= max_retries - 1
        /\ wk[w].pc = "db_sleep" =>
              /\ wk[w].timer = BACKOFF
              /\ wk[w].attempt < max_retries - 1
              /\ wk[w].slept = wk[w].attempt + 1
        /\ wk[w].pc # "db_sleep" =>
              /\ wk[w].timer = 0
              /\ wk[w].slept = wk[w].attempt
        /\ DbDone(w) => (DbOk(w) \/ DbFailed(w))
        /\ DbFailed(w) =>
              /\ wk[w].attempt = max_retries - 1
              /\ wk[w].slept = max_retries - 1
              /\ wk[w].resp.status[2] = max_retries
              /\ wk[w].resp.status[3] # ""

\* C4: a DbToHdfs call never raises and always ends with a response; it makes
\* at most 5 attempts, sleeps 10 after a failed attempt only when attempts
\* remain (at most 4 sleeps, none after the fifth attempt), and returns an
\* error status when the fifth attempt fails.
BoundedRetry ==
    /\ [](\A w \in Workers : RetryInv(w))
    /\ \A w \in Workers : (wk[w].op = "DbToHdfs") ~> (wk[w].pc = "done")

BoundedRetryWitness ==
    \E w \in Workers :
        /\ DbFailed(w)
        /\ wk[w].attempt = max_retries - 1
        /\ wk[w].slept = max_retries - 1

\* C5: a DbToHdfs call whose attempt k succeeds after k-1 failed attempts
\* returns at once: its status reports the number of rows of the result set
\* that attempt extracted and wrote, which is what the main file now holds,
\* and the call makes no further attempt and no further write.
SuccessReturnsAtOnce ==
    [][\A w \in Workers :
          /\ DbOk(w)' =>
                /\ wk'[w].resp.status[2] = Len(wk'[w].df)
                /\ main' = OkFile(wk'[w].df, MAIN_REPLICATION)
                /\ \E tbl \in DbTables : wk'[w].df = Query(tbl)
                /\ wk'[w].slept = wk'[w].attempt
                /\ wk'[w].attempt < max_retries
          /\ DbOk(w) =>
                /\ main' = main
                /\ wk'[w] = wk[w] \/ wk'[w] = IdleWorker]_vars

\* success at the third attempt, reporting two rows
SuccessReturnsAtOnceWitness ==
    \E w \in Workers :
        /\ DbOk(w)
        /\ wk[w].attempt = 2
        /\ wk[w].resp.status[2] = 2
        /\ Len(main.rows) = 2

\* C6: no operation lets an exception through: whatever fails, the handler
\* returns a response, and a call that ends in a failure carries the
\* message of that failure in its response.
NoRawFault ==
    \A w \in Workers :
        /\ wk[w].pc # "raised"
        /\ (wk[w].pc = "done" /\ wk[w].exc.cls # "") =>
              /\ Str(wk[w].exc) # ""
              /\ wk[w].op = "DbToHdfs" => wk[w].resp.status[3] = Str(wk[w].exc)
              /\ wk[w].op \in {"BlockLocations", "CalcAvgLoan"} =>
                    wk[w].resp.error = Str(wk[w].exc)
        /\ (wk[w].pc = "done" /\ wk[w].exc.cls = "") =>
              /\ wk[w].resp.error = ""
              /\ wk[w].op = "DbToHdfs" => DbOk(w)

\* a call has ended in an exception that the handlers of the inner try do
\* not catch: the partition file is no parquet file
NoRawFaultWitness ==
    \E w \in Workers :
        /\ CalcDone(w)
        /\ wk[w].exc.cls = "ArrowInvalid"
        /\ wk[w].resp.error = Str(wk[w].exc)

\* C7: a CalcAvgLoan response has either no error and a source among create,
\* reuse, recreate, or an error, average 0 and source ""; the latter also
\* when the failure is one the miss paths do not handle, as a missing
\* MainDataset.
ResponseShape ==
    \A w \in Workers :
        CalcDone(w) =>
            \/ /\ wk[w].resp.error = ""
               /\ wk[w].resp.source \in {"create", "reuse", "recreate"}
            \/ /\ wk[w].resp.error # ""
               /\ wk[w].resp.avg_loan = 0
               /\ wk[w].resp.source = ""

\* the partition was missing and so was MainDataset
ResponseShapeWitness ==
    \E w \in Workers :
        /\ CalcDone(w)
        /\ wk[w].seen = "absent"
        /\ wk[w].source = "create"
        /\ main.st = "absent"
        /\ wk[w].exc.cls = "FileNotFoundError"
        /\ wk[w].resp.error # ""

\* C8 as stated: a call for a key with no matching row in MainDataset
\* returns an error result with average 0 and source "".
ZeroRowsIsError ==
    \A w \in Workers :
        (/\ CalcDone(w)
         /\ main.st = "ok"
         /\ RowsWithKey(main.rows, wk[w].county_code) = <<>>) =>
            /\ wk[w].resp.error # ""
            /\ wk[w].resp.avg_loan = 0
            /\ wk[w].resp.source = ""

\* C8 as amended: a call for a key with no matching row in MainDataset that
\* finds no readable partition file of that key does not crash: it returns an
\* error result with average 0 and source "", and writes no partition (the
\* file is as the call found it, unless deleted meanwhile), so a repeated
\* call does the same.
ZeroRowsIsErrorOnMiss ==
    \A w \in Workers :
        /\ wk[w].op = "CalcAvgLoan" => wk[w].pc # "raised"
        /\ (/\ CalcDone(w)
            /\ main.st = "ok"
            /\ RowsWithKey(main.rows, wk[w].county_code) = <<>>
            /\ wk[w].seen # "ok") =>
               /\ wk[w].resp.error # ""
               /\ wk[w].resp.avg_loan = 0
               /\ wk[w].resp.source = ""
               /\ wk[w].seen # "" => part[wk[w].county_code].st \in {wk[w].seen, "absent"}

\* no partition, MainDataset readable without a row of the key: the mean of
\* no rows has failed
ZeroRowsIsErrorOnMissWitness ==
    \E w \in Workers :
        /\ CalcDone(w)
        /\ wk[w].seen = "absent"
        /\ main.st = "ok"
        /\ main.rows # <<>>
        /\ RowsWithKey(main.rows, wk[w].county_code) = <<>>
        /\ wk[w].exc = NanError
        /\ part[wk[w].county_code].st = "absent"

\* the number of entries of the replica-host lists of the blocks that name h
Occurrences(h, blocks) ==
    Cardinality({ij \in (1..Len(blocks)) \X (1..NumHosts) :
                    /\ ij[2] <= Len(blocks[ij[1]].hosts)
                    /\ blocks[ij[1]].hosts[ij[2]] = h})

RECURSIVE SumOver(_, _)
SumOver(d, S) ==
    IF S = {} THEN 0
    ELSE LET x == CHOOSE y \in S : TRUE IN d[x] + SumOver(d, S \ {x})

\* the sum of the counters of a mapping
SumOfCounters(d) == SumOver(d, DOMAIN d)

\* worker w holds the response of a completed BlockLocations call
BlDone(w) == wk[w].op = "BlockLocations" /\ wk[w].pc = "done"

\* C9: a BlockLocations response for a path that does not exist, or whose
\* query failed otherwise, has an empty mapping and an error; a response to a
\* query that succeeded has no error, maps exactly the hosts the blocks name,
\* each to the number of its occurrences in the replica-host lists, and its
\* counters sum to the number of (block, host) entries, which is the number
\* of blocks times r when every block names r hosts.
BlockCounts ==
    \A w \in Workers :
        BlDone(w) =>
            LET r == wk[w].resp
                blocks == wk[w].result
            IN /\ FileAt(wk[w].path).st = "absent" => r.error # ""
               /\ r.error # "" => r.block_entries = EmptyDict
               /\ r.error = "" =>
                     /\ DOMAIN r.block_entries = {h \in Hosts : Occurrences(h, blocks) > 0}
                     /\ \A h \in DOMAIN r.block_entries :
                            r.block_entries[h] = Occurrences(h, blocks)
                     /\ \A n \in 0..NumHosts :
                            (\A i \in 1..Len(blocks) : Len(blocks[i].hosts) = n) =>
                                SumOfCounters(r.block_entries) = Len(blocks) * n

\* two blocks with two replicas each: the counters sum to 4
BlockCountsWitness ==
    \E w \in Workers :
        /\ BlDone(w)
        /\ wk[w].resp.error = ""
        /\ Len(wk[w].result) = 2
        /\ \A i \in 1..2 : Len(wk[w].result[i].hosts) = 2
        /\ SumOfCounters(wk[w].resp.block_entries) = 4

\* C10: under any interleaving of CalcAvgLoan and DbToHdfs calls, a
\* partition file that is present and readable holds exactly the rows with
\* the partition's key of one complete content of the main file, the one
\* the writing call read: rows of that key only, and at least one.
PartitionInvariant ==
    \A k \in Keys :
        part[k].st = "ok" =>
            /\ faithful[k]
            /\ part[k].rows # <<>>
            /\ \A i \in 1..Len(part[k].rows) : part[k].rows[i].county_code = k
            /\ \E tbl \in DbTables : part[k].rows = RowsWithKey(Query(tbl), k)

\* a partition written from a main file that has since been replaced, while
\* another call is rewriting the main file
PartitionInvariantWitness ==
    \E k \in Keys :
        /\ part[k].st = "ok"
        /\ faithful[k]
        /\ main.st = "partial"
        /\ \E w \in Workers : wk[w].op = "DbToHdfs" /\ wk[w].pc = "db_write"
        /\ \E w \in Workers : wk[w].op = "CalcAvgLoan" /\ wk[w].county_code = k
                                /\ wk[w].pc = "calc_part"

\* C11: while MainDataset is unchanged, CalcAvgLoan calls for the same key
\* exclude each other nowhere, yet every call that returns without error
\* returns the truncated mean of the key's rows of MainDataset; a write that
\* succeeds replaces the whole partition file by the writer's table, so the
\* last writer's content stays; and a readable partition file, at any time
\* and so when all calls have finished, holds the key's rows of MainDataset.
SameKeyRace ==
    /\ [](\A w \in Workers :
            (CalcDone(w) /\ wk[w].resp.error = "") =>
                /\ main.st = "ok"
                /\ IsTruncMean(wk[w].resp.avg_loan, RowsWithKey(main.rows, wk[w].county_code)))
    /\ [](\A k \in Keys :
            part[k].st = "ok" => part[k] = OkFile(RowsWithKey(main.rows, k), PART_REPLICATION))
    /\ [][\A w \in Workers :
            (/\ wk[w].pc = "calc_write"
             /\ wk'[w].pc = "done"
             /\ wk'[w].resp.error = "") =>
                part'[wk[w].county_code] = OkFile(wk[w].table, PART_REPLICATION)]_vars

\* two calls for the same key have both scanned MainDataset and both written
\* the partition, and returned the same average
SameKeyRaceWitness ==
    \E w1, w2 \in Workers :
        /\ w1 # w2
        /\ CalcDone(w1) /\ CalcDone(w2)
        /\ wk[w1].county_code = wk[w2].county_code
        /\ wk[w1].resp.source = "create" /\ wk[w2].resp.source = "create"
        /\ wk[w1].resp.avg_loan = wk[w2].resp.avg_loan
        /\ part[wk[w1].county_code].st = "ok"

\* C12: when a DbToHdfs call has returned, with success or after failed
\* attempts, MainDataset is a complete file (its prior content or the new
\* result set) or does not exist: it is never left partial or truncated.
MainWholesale ==
    \A w \in Workers :
        DbDone(w) => main.st \in {"absent", "ok"}

\* C13: a CalcAvgLoan call that answers "reuse" has not opened the main file
\* and has opened no file for output, and a step of a call changes no file
\* but one the call has opened for output; a call that missed (source create or recreate), however it ends, has
\* opened the main file exactly once and has opened at most one file for
\* output, the partition file of its key, exactly one when it returns
\* without error.
ScanBound ==
    /\ [](\A w \in Workers :
            CalcDone(w) =>
                /\ wk[w].resp.source = "reuse" =>
                      /\ wk[w].scans = 0
                      /\ wk[w].written = <<>>
                /\ wk[w].source \in {"create", "recreate"} =>
                      /\ wk[w].scans = 1
                      /\ Len(wk[w].written) <= 1
                      /\ \A i \in 1..Len(wk[w].written) :
                             wk[w].written[i] = partition_path(wk[w].county_code)
                      /\ wk[w].resp.error = "" => Len(wk[w].written) = 1)
    /\ [][\A w \in Workers :
            (wk[w].op = "CalcAvgLoan" /\ wk'[w] # wk[w]) =>
                /\ main' = main
                /\ \A k \in Keys :
                       part'[k] # part[k] =>
                           \E i \in 1..Len(wk'[w].written) :
                               wk'[w].written[i] = partition_path(k)]_vars

\* a hit on a partition that a miss with source "recreate" wrote, after one
\* scan and one write
ScanBoundWitness ==
    \E w \in Workers :
        /\ CalcDone(w)
        /\ wk[w].resp.source = "reuse"
        /\ wk[w].scans = 0
        /\ wk[w].written = <<>>
        /\ cache[wk[w].county_code].by = "recreate"
        /\ cache[wk[w].county_code].returned

\* the source a call answers with when it found its partition file in state st
SourceFor(st) ==
    CASE st = "ok" -> "reuse"
      [] st = "absent" -> "create"
      [] st = "unavailable" -> "recreate"
      [] OTHER -> ""

\* C14: a step of a CalcAvgLoan call for key k changes neither MainDataset nor
\* the partition file of another key; and, MainDataset being unchanged, the
\* answer of a call that returns without error is the one a call running
\* alone gives: the source that goes with the state in which it found the
\* partition file of k and the truncated mean of the rows of k in
\* MainDataset, whatever the calls for other keys do meanwhile, and every
\* readable partition file holds the rows of its key.
CrossKeyIndependence ==
    /\ [][\A w \in Workers :
            (wk[w].op = "CalcAvgLoan" /\ wk'[w] # wk[w]) =>
                /\ main' = main
                /\ \A j \in Keys \ {wk[w].county_code} : part'[j] = part[j]]_vars
    /\ [](\A w \in Workers :
            (CalcDone(w) /\ wk[w].resp.error = "") =>
                /\ wk[w].resp.source = SourceFor(wk[w].seen)
                /\ IsTruncMean(wk[w].resp.avg_loan, RowsWithKey(main.rows, wk[w].county_code)))
    /\ [](\A k \in Keys :
            part[k].st = "ok" =>
                \A i \in 1..Len(part[k].rows) :
                    /\ part[k].rows[i].county_code = k
                    /\ part[k].rows = RowsWithKey(main.rows, k))

\* two concurrent misses for different keys have both returned
CrossKeyIndependenceWitness ==
    \E w1, w2 \in Workers :
        /\ CalcDone(w1) /\ CalcDone(w2)
        /\ wk[w1].county_code # wk[w2].county_code
        /\ wk[w1].resp.source = "create" /\ wk[w2].resp.source = "create"
        /\ part[wk[w1].county_code].st = "ok"
        /\ part[wk[w2].county_code].st = "ok"
        /\ wk[w1].resp.avg_loan # wk[w2].resp.avg_loan

\* C15: no step of a DbToHdfs call changes a partition file; a partition
\* file that a call finds readable is answered with "reuse", whatever
\* MainDataset has become since it was written; and the only steps of the
\* service that change a partition file are those of a CalcAvgLoan call for
\* its key that found it missing or unreadable.
NoInvalidation ==
    /\ [][\A w \in Workers :
            (wk[w].op = "DbToHdfs" /\ wk'[w] # wk[w]) => part' = part]_vars
    /\ [][\A k \in Keys :
            (part'[k] # part[k] /\ wk' # wk) =>
                \E w \in Workers :
                    /\ wk'[w] # wk[w]
                    /\ wk[w].op = "CalcAvgLoan"
                    /\ wk[w].county_code = k
                    /\ wk[w].source \in {"create", "recreate"}
                    /\ wk[w].seen \in {"absent", "unavailable"}]_vars
    /\ [](\A w \in Workers :
            (CalcDone(w) /\ wk[w].seen = "ok") =>
                /\ wk[w].resp.source = "reuse"
                /\ wk[w].resp.error = ""
                /\ wk[w].written = <<>>)

\* a partition written before the latest materialization, whose rows are not
\* the rows of the key in MainDataset any more, is answered with "reuse"
NoInvalidationWitness ==
    \E w \in Workers :
        /\ CalcDone(w)
        /\ wk[w].resp.source = "reuse"
        /\ cache[wk[w].county_code].returned
        /\ main.st = "ok"
        /\ part[wk[w].county_code].rows # RowsWithKey(main.rows, wk[w].county_code)

\* C16: when an operation has returned, it holds no open handle: every
\* database connection it opened is closed, also that of an attempt whose
\* query or later step failed, and every file of the store it opened is
\* closed; and an attempt of DbToHdfs that has ended holds none either.
ResourceRelease ==
    \A w \in Workers :
        wk[w].pc \in {"done", "db_sleep"} =>
            /\ wk[w].conn # "open"
            /\ wk[w].streams = 0

\* C17: the main file, whenever it exists, was written with replication
\* factor 2 and every partition file that exists with replication factor 1,
\* while it is being written as when it is complete; 2 is the higher factor
\* and no file carries another one.
ReplicationPolicy ==
    /\ MAIN_REPLICATION = 2
    /\ PART_REPLICATION = 1
    /\ MAIN_REPLICATION > PART_REPLICATION
    /\ main.st # "absent" => main.repl = MAIN_REPLICATION
    /\ \A k \in Keys : part[k].st # "absent" => part[k].repl = PART_REPLICATION

\* a partition is being written while the main file is complete
ReplicationPolicyWitness ==
    /\ main.st = "ok"
    /\ main.repl = 2
    /\ \E w \in Workers :
          /\ wk[w].pc = "calc_write"
          /\ part[wk[w].county_code].st = "partial"
          /\ part[wk[w].county_code].repl = 1
    /\ \E k \in Keys : part[k].st = "ok" /\ part[k].repl = 1

\* C18: a CalcAvgLoan call that returns an error has created, truncated or
\* overwritten no partition file: it has opened no file for output, and the
\* partition file of its key is as the call found it.
ErrorLeavesCache ==
    \A w \in Workers :
        (CalcDone(w) /\ wk[w].resp.error # "") =>
            /\ wk[w].written = <<>>
            /\ wk[w].seen # "" => part[wk[w].county_code].st \in {wk[w].seen, "absent"}

====
